---- MODULE Spec2Model ----
(***************************************************************************)
(* The adaptive Dormand-Prince integrator of package dopri                 *)
(* (Integrator.ComputeWithStats and Integrator.Compute), as a state        *)
(* machine over one call.                                                  *)
(*                                                                         *)
(* Numbers.  The code computes in binary floating point.  The model keeps  *)
(* the format and shortens the significand: a number is a non-negative     *)
(* integer count of the smallest quantum and is representable when it has  *)
(* at most Prec significant bits.  Every arithmetic result is rounded to   *)
(* the nearest representable number, ties to the even significand, as the  *)
(* hardware does.                                                          *)
(*                                                                         *)
(* The derivative evaluator is the caller's.  What the step loop reads of  *)
(* its results is the error estimate of an attempt, drawn here from        *)
(* ErrRoots, and the scale of the initial-step heuristic, drawn from       *)
(* InvScales.  The state vector and the stage derivatives are carried as   *)
(* symbolic values that record what they were computed from.               *)
(***************************************************************************)
EXTENDS Integers, Sequences, FiniteSets, TLC

VARIABLES
    pc,        \* position in ComputeWithStats / Compute
    cfg,       \* self.config: [TryStep, MaxStep]
    xs0,       \* the grid passed by the caller (parameter xs)
    xs,        \* local xs: the grid (fixed mode) or the reported points (free mode)
    ys,        \* output rows
    nc,        \* output cursor
    x,         \* current position
    h,         \* current step size
    hmax,      \* upper limit of the step size
    hmin,      \* lower limit of the step size at x
    done,      \* terminal mark
    rejected,  \* an attempt of the current step has been rejected
    xnew,      \* end point of the last attempt
    err,       \* error estimate of the last attempt, as <<num, den>> = (eps/relerr)^(1/5)
    y,         \* state at x
    ynew,      \* state computed by the last attempt
    f,         \* the seven stage slots f1..f7
    stats,     \* Stats{Evaluations, Rejections, Steps}
    calls,     \* invocations of dydx made so far, as the evaluator sees them
    ret,       \* what ComputeWithStats returned
    cret       \* what Compute returned

vars == <<pc, cfg, xs0, xs, ys, nc, x, h, hmax, hmin, done, rejected, xnew,
          err, y, ynew, f, stats, calls, ret, cret>>

(***************************************************************************)
(* Bounds of the model.                                                    *)
(***************************************************************************)
\* significand bits of the number format (53 in float64)
Prec == 6
\* outer iterations explored per call
MaxSteps == 14

(***************************************************************************)
(* Floating point.                                                         *)
(***************************************************************************)
Max(a, b) == IF a >= b THEN a ELSE b

RECURSIVE Pow2(_)
Pow2(n) == IF n <= 0 THEN 1 ELSE 2 * Pow2(n - 1)

RECURSIVE BitLen(_)
BitLen(v) == IF v <= 0 THEN 0 ELSE 1 + BitLen(v \div 2)

\* distance between neighbouring representable numbers at magnitude v
Spacing(v) == Pow2(Max(0, BitLen(v) - Prec))

Representable(v) == v >= 0 /\ v % Spacing(v) = 0

\* n/d rounded to the nearest representable number, ties to even
Round(n, d) ==
    LET q  == n \div d
        s  == Spacing(q)
        lo == (q \div s) * s
        r2 == 2 * (n - lo * d)
    IN  IF r2 < s * d THEN lo
        ELSE IF r2 > s * d THEN lo + s
        ELSE IF (lo \div s) % 2 = 0 THEN lo ELSE lo + s

Add(a, b) == Round(a + b, 1)
Sub(a, b) == Round(a - b, 1)
\* a times the constant n/d
Mul(a, n, d) == Round(a * n, d)

\* func epsilon: math.Nextafter(x, x+1) - x
epsilon(v) == Spacing(v)

(***************************************************************************)
(* Inputs of a call.                                                       *)
(***************************************************************************)
\* coordinates the caller's grid is drawn from
GridPoints == {5, 70, 204, 216}

\* non-decreasing grids of 2 or 3 points with xs[0] < xs[last]
Grids ==
    { <<a, b>> : a \in GridPoints, b \in GridPoints } \cup
    { <<a, m, b>> : a \in GridPoints, m \in GridPoints, b \in GridPoints }

ValidGrid(g) ==
    /\ \A i \in 1..Len(g) : Representable(g[i])
    /\ \A i \in 1..(Len(g) - 1) : g[i] <= g[i + 1]
    /\ g[1] < g[Len(g)]

\* Config values accepted by Config.verify: TryStep >= 0, MaxStep >= 0
TrySteps == {0, 512}
MaxStepValues == {0, 1, 64, 512}

\* (eps/relerr)^(1/5) of an attempt: accepted when <= 1
ErrRoots == { <<1, 8>>, <<1, 1>>, <<2, 1>>, <<16, 1>> }

\* 1/scale of the initial-step heuristic; 0 stands for scale = 0
InvScales == {0, 24}

Accepted(e) == e[1] <= e[2]

(***************************************************************************)
(* Symbolic values.                                                        *)
(***************************************************************************)
y0 == <<>>
ZeroSlot == <<>>
ZeroRow == [kind |-> "zero", val |-> <<>>]

Nil == [nil |-> TRUE, val |-> <<>>]
Some(v) == [nil |-> FALSE, val |-> v]
NoStats == [Evaluations |-> 0, Rejections |-> 0, Steps |-> 0]
NilStats == [nil |-> TRUE, val |-> NoStats]
NoReturn == [ys |-> Nil, xs |-> Nil, stats |-> NilStats, err |-> "none"]
NoCReturn == [ys |-> Nil, xs |-> Nil, err |-> "none"]

nx == Len(xs0)
xend == xs0[nx]
fixed == nx > 2

(***************************************************************************)
(* A call of Compute: the integrator is constructed, the arguments chosen. *)
(***************************************************************************)
Init ==
    /\ pc = "start"
    /\ cfg \in [TryStep : TrySteps, MaxStep : MaxStepValues]
    /\ xs0 \in { g \in Grids : ValidGrid(g) }
    /\ xs = xs0
    /\ ys = <<>>
    /\ nc = 0
    /\ x = 0
    /\ h = 0
    /\ hmax = 0
    /\ hmin = 0
    /\ done = FALSE
    /\ rejected = FALSE
    /\ xnew = 0
    /\ err = <<0, 1>>
    /\ y = y0
    /\ ynew = y0
    /\ f = [i \in 1..7 |-> ZeroSlot]
    /\ stats = NoStats
    /\ calls = 0
    /\ ret = NoReturn
    /\ cret = NoCReturn

(***************************************************************************)
(* Lines 82-170: the first evaluation, the limits, the initial step size,  *)
(* the first output row.                                                   *)
(***************************************************************************)
\* lines 115-118
InitHmax == IF cfg.MaxStep = 0 THEN Mul(Sub(xend, xs0[1]), 1, 10) ELSE cfg.MaxStep

\* lines 121-153, inv the reciprocal of the scale the loop of 128-148 finds
InitStep(inv) ==
    IF cfg.TryStep # 0 THEN cfg.TryStep
    ELSE LET h1 == Sub(xs0[2], xs0[1])
             h2 == IF h1 > InitHmax THEN InitHmax ELSE h1
         IN  IF inv # 0 /\ h2 > inv THEN inv ELSE h2

\* mutant: the first evaluation is not counted
CountFirst_Forgotten(st) == st

\* line 107
CountFirst(st) == [st EXCEPT !.Evaluations = @ + 1]

Prepare ==
    /\ pc = "start"
    /\ \E inv \in InvScales :
         /\ (cfg.TryStep # 0 => inv = 0)
         /\ h' = InitStep(inv)
    /\ x' = xs0[1]
    /\ y' = y0
    /\ f' = [f EXCEPT ![1] = <<xs0[1], y0>>]
    /\ calls' = calls + 1
    /\ stats' = CountFirst(stats)
    /\ hmax' = InitHmax
    /\ ys' = IF fixed THEN [i \in 1..nx |-> IF i = 1 THEN [kind |-> "y0", val |-> y0] ELSE ZeroRow]
                      ELSE << [kind |-> "y0", val |-> y0] >>
    /\ xs' = IF fixed THEN xs0 ELSE << xs0[1] >>
    /\ nc' = 1
    /\ done' = FALSE
    /\ pc' = "loop"
    /\ UNCHANGED <<cfg, xs0, hmin, rejected, xnew, err, ynew, ret, cret>>

(***************************************************************************)
(* Lines 172-192: the head of an outer iteration.                          *)
(***************************************************************************)
\* line 177
MinStep(pos) == 16 * epsilon(pos)

\* mutant: the upper limit is not applied
Clamp_NoUpper(v, lo, hi) == IF v < lo THEN lo ELSE v

\* lines 179-184
Clamp(v, lo, hi) ==
    LET v1 == IF v < lo THEN lo ELSE v
    IN  IF v1 > hi THEN hi ELSE v1

\* line 187
CloseToEnd(v, pos) == Mul(v, 11, 10) >= Sub(xend, pos)

BeginStep ==
    /\ pc = "loop"
    /\ stats.Steps < MaxSteps
    /\ stats' = [stats EXCEPT !.Steps = @ + 1]
    /\ hmin' = MinStep(x)
    /\ LET hc == Clamp(h, MinStep(x), hmax)
       IN  IF CloseToEnd(hc, x)
           THEN h' = Sub(xend, x) /\ done' = TRUE
           ELSE h' = hc /\ done' = done
    /\ rejected' = FALSE
    /\ pc' = "try"
    /\ UNCHANGED <<cfg, xs0, xs, ys, nc, x, hmax, xnew, err, y, ynew, f, calls, ret, cret>>

(***************************************************************************)
(* Lines 194-293: one attempt of the step from x with step size h.         *)
(***************************************************************************)
\* lines 201-233: the abscissa and the argument of the six evaluations
Stage(i, pos, v) ==
    CASE i = 2 -> << Add(pos, Mul(v, 1, 5)),  <<pos, v, 2>> >>
      [] i = 3 -> << Add(pos, Mul(v, 3, 10)), <<pos, v, 3>> >>
      [] i = 4 -> << Add(pos, Mul(v, 4, 5)),  <<pos, v, 4>> >>
      [] i = 5 -> << Add(pos, Mul(v, 8, 9)),  <<pos, v, 5>> >>
      [] i = 6 -> << Add(pos, v),             <<pos, v, 6>> >>
      [] i = 7 -> << Add(pos, v),             <<pos, v>> >>

\* mutant: the first stage is evaluated again by every attempt
Stages_FirstAgain(slots, pos, v) ==
    [i \in 1..7 |-> IF i = 1 THEN << pos, <<pos, v, 1>> >> ELSE Stage(i, pos, v)]

\* lines 195-235: slot 1 is read, slots 2..7 are written
Stages(slots, pos, v) == [i \in 1..7 |-> IF i = 1 THEN slots[1] ELSE Stage(i, pos, v)]

\* line 227
StepResult(pos, v) == <<pos, v>>

\* lines 279-289
Shrink(v, rej, e, lo) ==
    LET v1 == IF rej THEN Mul(v, 1, 2)
              ELSE IF 8 * e[2] > e[1] THEN Mul(v, 4 * e[2], 5 * e[1])
              ELSE Mul(v, 1, 10)
    IN  IF v1 < lo THEN lo ELSE v1

\* mutant: an attempt is counted as five evaluations
CountAttempt_Five(st) == [st EXCEPT !.Evaluations = @ + 5]

\* line 235
CountAttempt(st) == [st EXCEPT !.Evaluations = @ + 6]

\* line 272
CountRejection(st) == [st EXCEPT !.Rejections = @ + 1]

\* mutant: the rows and points accumulated so far are returned with the error
UnderflowReturn_Partial(st) ==
    [ys |-> Some(ys), xs |-> Some(xs), stats |-> Some(st), err |-> "underflow"]

\* line 275: what the call returns on a step-size underflow
UnderflowReturn(st) ==
    [ys |-> Nil, xs |-> Nil, stats |-> Some(st), err |-> "underflow"]

\* lines 195-266, shared by the three outcomes of an attempt
Attempt(e) ==
    /\ pc = "try"
    /\ f' = Stages(f, x, h)
    /\ ynew' = StepResult(x, h)
    /\ xnew' = Add(x, h)
    /\ calls' = calls + 6
    /\ err' = e

\* line 268: the attempt is accepted
AttemptAccepted ==
    \E e \in ErrRoots :
        /\ Accepted(e)
        /\ Attempt(e)
        /\ stats' = CountAttempt(stats)
        /\ pc' = "emit"
        /\ UNCHANGED <<cfg, xs0, xs, ys, nc, x, h, hmax, hmin, done, rejected, y, ret, cret>>

\* lines 272-292: the attempt is rejected and retried
AttemptRejected ==
    \E e \in ErrRoots :
        /\ ~Accepted(e)
        /\ h > hmin
        /\ Attempt(e)
        /\ stats' = CountRejection(CountAttempt(stats))
        /\ h' = Shrink(h, rejected, e, hmin)
        /\ done' = FALSE
        /\ rejected' = TRUE
        /\ pc' = "try"
        /\ UNCHANGED <<cfg, xs0, xs, ys, nc, x, hmax, hmin, y, ret, cret>>

\* lines 272-276: the attempt is rejected at the minimal step size
AttemptUnderflow ==
    \E e \in ErrRoots :
        /\ ~Accepted(e)
        /\ h <= hmin
        /\ Attempt(e)
        /\ stats' = CountRejection(CountAttempt(stats))
        /\ ret' = UnderflowReturn(CountRejection(CountAttempt(stats)))
        /\ pc' = "returned"
        /\ UNCHANGED <<cfg, xs0, xs, ys, nc, x, h, hmax, hmin, done, rejected, y, cret>>

(***************************************************************************)
(* Lines 295-313: the output of an accepted step.                          *)
(***************************************************************************)
\* func interpolate: the row it writes, from the arguments it is given
interpolate(pos, state, slots, v, xnext) ==
    [kind |-> "interp", val |-> <<pos, state, slots, v, xnext>>]

\* mutant: a requested point is always interpolated
FillRow_AlwaysInterpolate(c) == interpolate(x, y, f, h, xs[c + 1])

\* lines 301-305
FillRow(c) ==
    IF xs[c + 1] = xnew THEN [kind |-> "copy", val |-> ynew]
    ELSE interpolate(x, y, f, h, xs[c + 1])

\* lines 296-308: rows and cursor after the loop, from rows and cursor c
RECURSIVE FillRows(_, _)
FillRows(rows, c) ==
    IF c < nx /\ ~(xnew < xs[c + 1])
    THEN FillRows([rows EXCEPT ![c + 1] = FillRow(c)], c + 1)
    ELSE <<rows, c>>

Emit ==
    /\ pc = "emit"
    /\ IF fixed
       THEN LET r == FillRows(ys, nc)
            IN  ys' = r[1] /\ nc' = r[2] /\ xs' = xs
       ELSE /\ ys' = Append(ys, [kind |-> "copy", val |-> ynew])
            /\ xs' = Append(xs, xnew)
            /\ nc' = nc + 1
    /\ pc' = "next"
    /\ UNCHANGED <<cfg, xs0, x, h, hmax, hmin, done, rejected, xnew, err, y, ynew,
                   f, stats, calls, ret, cret>>

(***************************************************************************)
(* Lines 315-335: the end of an outer iteration.                           *)
(***************************************************************************)
\* mutant: the step size always grows
NewStep_AlwaysGrow(v, e) == Mul(v, 5, 1)

\* lines 328-332
NewStep(v, e) ==
    IF 25 * e[1] > 4 * e[2] THEN Mul(v, 4 * e[2], 5 * e[1]) ELSE Mul(v, 5, 1)

\* lines 323-332
NextStep(v, rej, e) == IF rej THEN v ELSE NewStep(v, e)

\* lines 319-332
Advance ==
    /\ pc = "next"
    /\ ~done
    /\ x' = xnew
    /\ f' = [f EXCEPT ![1] = f[7]]
    /\ y' = ynew
    /\ h' = NextStep(h, rejected, err)
    /\ pc' = "loop"
    /\ UNCHANGED <<cfg, xs0, xs, ys, nc, hmax, hmin, done, rejected, xnew, err, ynew,
                   stats, calls, ret, cret>>

\* lines 315-317 and 335
Return ==
    /\ pc = "next"
    /\ done
    /\ ret' = [ys |-> Some(ys), xs |-> Some(xs), stats |-> Some(stats), err |-> "nil"]
    /\ pc' = "returned"
    /\ UNCHANGED <<cfg, xs0, xs, ys, nc, x, h, hmax, hmin, done, rejected, xnew, err,
                   y, ynew, f, stats, calls, cret>>

(***************************************************************************)
(* Integrator.Compute, lines 32-38: the statistics are dropped.            *)
(***************************************************************************)
ComputeReturn ==
    /\ pc = "returned"
    /\ cret' = [ys |-> ret.ys, xs |-> ret.xs, err |-> ret.err]
    /\ pc' = "done"
    /\ UNCHANGED <<cfg, xs0, xs, ys, nc, x, h, hmax, hmin, done, rejected, xnew, err,
                   y, ynew, f, stats, calls, ret>>

Next ==
    \/ Prepare
    \/ BeginStep
    \/ AttemptAccepted
    \/ AttemptRejected
    \/ AttemptUnderflow
    \/ Emit
    \/ Advance
    \/ Return
    \/ ComputeReturn

Spec == Init /\ [][Next]_vars

(***************************************************************************)
(* The claims.                                                             *)
(***************************************************************************)
Returned == pc \in {"returned", "done"}
Success == Returned /\ ret.err = "nil"
Failure == Returned /\ ret.err = "underflow"
Min(a, b) == IF a <= b THEN a ELSE b
StrictlyIncreasing(s) == \A i \in 1..(Len(s) - 1) : s[i] < s[i + 1]

\* the step size 4.4 of the specification prescribes after an accepted step:
\* scale = 1.25 * (eps/relerr)^(1/5); h / scale if scale > 0.2, else 5 * h
Controller(v, e) ==
    IF 25 * e[1] > 4 * e[2] THEN Round(v * 4 * e[2], 5 * e[1]) ELSE Round(5 * v, 1)

\* C1: every call finishes.  The call can finish only if the rejection loop
\* and the outer loop both make progress: a rejected attempt with h > hmin is
\* retried with a strictly smaller h that is at least hmin, a rejected
\* attempt with h <= hmin fails the call with the underflow error, and an
\* accepted step that is not the terminal one moves x strictly forward,
\* towards xs[last], which it does not pass.
C1_CallFinishes ==
    [][ /\ (pc = "try" /\ pc' = "try" => h > hmin /\ h' < h /\ h' >= hmin)
        /\ (pc = "try" /\ ~Accepted(err') /\ h <= hmin
              => pc' = "returned" /\ ret'.err = "underflow")
        /\ (pc = "next" /\ pc' = "loop" => x < x' /\ x' <= xend) ]_vars

\* C2 as claimed: on a step-size underflow ComputeWithStats returns nil for
\* ys, for xs and for the statistics, and Compute returns nil ys and nil xs,
\* each with the error.
C2_NothingReturned ==
    /\ Failure => ret.ys.nil /\ ret.xs.nil /\ ret.stats.nil
    /\ pc = "done" /\ ret.err = "underflow"
         => cret.ys.nil /\ cret.xs.nil /\ cret.err = "underflow"

\* C2 as amended: on a step-size underflow ComputeWithStats returns nil ys
\* and nil xs, and the statistics record as counted up to and including the
\* failing attempt; Compute returns nil ys and nil xs, each with the error.
C2_StatsReturned ==
    /\ Failure => /\ ret.ys.nil /\ ret.xs.nil
                  /\ ~ret.stats.nil
                  /\ ret.stats.val = stats
                  /\ stats.Rejections >= 1
                  /\ stats.Evaluations = calls
    /\ pc = "done" /\ ret.err = "underflow"
         => cret = [ys |-> Nil, xs |-> Nil, err |-> "underflow"]

\* a call that fails after it has emitted rows beyond the first
C2_Witness == pc = "done" /\ ret.err = "underflow" /\ nc > 1 /\ stats.Steps > 1

\* C3: in fixed-output mode a successful call has written every requested
\* row: the cursor nc equals len(xs) at return and no row is left as
\* allocated.
C3_AllRowsWritten ==
    Success /\ fixed =>
        /\ nc = nx
        /\ Len(ret.ys.val) = nx
        /\ \A i \in 1..nx : ret.ys.val[i].kind # "zero"

\* C4: in free-running mode a successful call reports xs[0] first, xs[1]
\* last, and strictly increasing points in between.
C4_FreeRunningPoints ==
    Success /\ ~fixed =>
        /\ ret.xs.val[1] = xs0[1]
        /\ ret.xs.val[Len(ret.xs.val)] = xs0[2]
        /\ StrictlyIncreasing(ret.xs.val)

\* C5 as claimed: the returned statistics satisfy Evaluations >= 6 * Steps
\* when there were rejections, and Rejections <= Steps.
C5_RejectionsBelowSteps ==
    Success =>
        /\ (ret.stats.val.Rejections > 0
              => ret.stats.val.Evaluations >= 6 * ret.stats.val.Steps)
        /\ ret.stats.val.Rejections <= ret.stats.val.Steps

\* C5 as amended: the returned statistics of every run, with or without
\* rejections, successful or not, satisfy Evaluations >= 6 * Steps and
\* Evaluations > 6 * Rejections.
C5_EvaluationsBound ==
    Returned =>
        /\ ret.stats.val.Evaluations >= 6 * ret.stats.val.Steps
        /\ ret.stats.val.Evaluations > 6 * ret.stats.val.Rejections

\* a successful run with more rejections than steps
C5_Witness == Success /\ ret.stats.val.Rejections > ret.stats.val.Steps

\* C6: Evaluations equals the number of calls of the evaluator; the first
\* stage of a step is the evaluation at (x, y) carried over, not a new one;
\* on success Evaluations = 1 + 6 * (Steps + Rejections).
C6_EvaluationsCounted ==
    /\ stats.Evaluations = calls
    /\ (pc \in {"loop", "try"} => f[1] = <<x, y>>)
    /\ (Success => ret.stats.val.Evaluations
                     = 1 + 6 * (ret.stats.val.Steps + ret.stats.val.Rejections))

\* a successful run of several steps, some of them rejected first
C6_Witness == Success /\ stats.Steps > 2 /\ stats.Rejections > 1

\* C7 as claimed: the first attempt of every step, the terminal one
\* included, is made with hmin <= h <= hmax.
C7_StepWithinLimits ==
    pc = "try" /\ ~rejected => hmin <= h /\ h <= hmax

\* C7 as amended: with hmin = 16 * eps(x) and hmax the configured MaxStep or
\* 0.1 * (xend - x0), the first attempt of a step that is not terminal is made
\* with min(hmin, hmax) <= h <= hmax; the first attempt of a terminal step
\* is made with h = xend - x, which is at most 1.1 * hmax and may be below
\* hmin; an attempt after a rejection is made with h >= hmin.
C7_StepLimits ==
    pc = "try" =>
        /\ hmin = 16 * Spacing(x)
        /\ hmax = IF cfg.MaxStep = 0 THEN Round(Round(xend - xs0[1], 1), 10)
                  ELSE cfg.MaxStep
        /\ (~rejected /\ ~done => Min(hmin, hmax) <= h /\ h <= hmax)
        /\ (~rejected /\ done => h = Round(xend - x, 1) /\ h <= Round(11 * hmax, 10))
        /\ (rejected => h >= hmin)

\* a terminal attempt made with a step size above hmax
C7_Witness == pc = "try" /\ ~rejected /\ done /\ h > hmax /\ stats.Steps > 1

\* C8 as claimed: after every accepted step that is not terminal the next
\* step size is the controller's, whether or not an attempt was rejected.
C8_AlwaysController ==
    [][pc = "next" /\ pc' = "loop" => h' = Controller(h, err)]_vars

\* C8 as amended: after an accepted step that is not terminal the next step
\* size is the controller's when no attempt of the step was rejected, and
\* the accepted step size itself when one was.
C8_ControllerUnlessRejected ==
    [][pc = "next" /\ pc' = "loop"
         => h' = IF rejected THEN h ELSE Controller(h, err)]_vars

\* the step size kept after a step that was accepted on a retry
C8_Witness == pc = "loop" /\ rejected /\ x > xs0[1] /\ h # Controller(h, err)

C10_DenseOutput ==
    [][pc = "emit" /\ pc' = "next" =>
         /\ calls' = calls
         /\ stats' = stats
         /\ fixed =>
              /\ f[1] = <<x, y>>
              /\ \A k \in 2..7 : f[k][2][1] = x /\ f[k][2][2] = h
              /\ f[7] = <<xnew, ynew>>
              /\ \A i \in (nc + 1)..nc' :
                   IF xs[i] = xnew
                   THEN ys'[i] = [kind |-> "copy", val |-> ynew]
                   ELSE /\ ys'[i] = [kind |-> "interp", val |-> <<x, y, f, h, xs[i]>>]
                        /\ x <= xs[i]
                        /\ xs[i] <= x + h ]_vars

\* a step that filled one row by copy and another by interpolation
C10_Witness ==
    /\ pc = "next" /\ fixed
    /\ \E i \in 1..nx : ys[i].kind = "interp"
    /\ \E i \in 1..nx : ys[i].kind = "copy"
====
